---- MODULE Spec2Model ----
(***************************************************************************)
(* Model of goworker.go: the mutex-guarded Init/Close lifecycle that owns  *)
(* the shared Redis connection pool, GetConn/getConn/PutConn on that pool, *)
(* and the Work orchestrator (poller, workers, completion barrier).        *)
(***************************************************************************)
EXTENDS Integers, Sequences, FiniteSets, TLC

\* ------------------------------------------------------------------ bounds
MaxCalls == 2         \* direct Init/Close invocations explored per behaviour
MaxWorks == 1          \* Work invocations explored per behaviour
MaxConcurrency == 2    \* workerSettings.Concurrency ranges over 0..MaxConcurrency
MaxConnections == 2    \* workerSettings.Connections ranges over 1..MaxConnections
MaxMonitors == 2       \* Sentinel monitor endpoints range over 1..MaxMonitors
MaxConnIds == 3        \* connections the pool factory may open per behaviour
MaxFailovers == 1      \* failover events (open connections turn stale)
MaxAcquires == 3       \* GetConn invocations explored per behaviour

Clients == {"c1"}
Procs == {"main"} \cup Clients
Callers == {"w1", "w2"}

NoProc == "none"
NoErr == "nil"

\* Errors of pool.Get that are not timeouts (goworker.go:115-116): the code
\* hands them back as they are, so two distinct values are kept apart.
PermanentErrors == {"ConnRefused", "AuthError"}

VARIABLES
    \* package-level state (goworker.go:17-24)
    initialized, initMutex, pool, workerSettings,
    \* bookkeeping of what Init/Close built and closed
    openPools, poolsBuilt, poolCloses, loggersBuilt, initCalls, closeCalls,
    \* per-thread position inside Init/Close and the error Init returns
    pc, err,
    \* Work's locals: position, quit channel, poller, loop index, workers,
    \* WaitGroup counter, returned error
    wpc, quit, poller, jobsClosed, id, workers, monitor, wret, works,
    \* identities handed to newWorker, in order, and the number of times the
    \* deferred Close of the current Work call has been run
    started, closeRuns,
    \* pool contents and connections
    resources, connState, nextConn, failovers,
    \* per-caller position inside GetConn/getConn and the lease it holds
    apc, attemptsLeft, cur, lease, res,
    \* per-call history of the current (or last) GetConn call
    budget, attempts, putNil, discarded, validated, acquires

lifeVars == <<initialized, initMutex, pool, openPools, poolsBuilt, poolCloses,
              loggersBuilt, initCalls, closeCalls, pc, err>>
workVars == <<wpc, quit, poller, jobsClosed, id, workers, monitor, wret, works,
              started, closeRuns>>
callVars == <<connState, nextConn, failovers, apc, attemptsLeft, cur, lease,
              res, budget, attempts, putNil, discarded, validated, acquires>>
poolVars == <<resources, callVars>>
vars == <<lifeVars, workVars, poolVars, workerSettings>>

\* ---------------------------------------------------------------- settings
\* WorkerSettings / RedisSettings (goworker.go:26-58), restricted to the
\* fields the modelled code reads.
SettingsSet ==
    [Concurrency : 0..MaxConcurrency,
     Connections : 1..MaxConnections,
     ExitOnComplete : BOOLEAN,
     Sentinel : BOOLEAN,
     Monitors : 0..MaxMonitors]

ValidSettings(s) ==
    IF s.Sentinel THEN s.Monitors >= 1 ELSE s.Monitors = 0

\* newRedisPool(settings, Connections, Connections, time.Minute)
\* (goworker.go:81): a pool of Connections slots, all empty at first.
newRedisPool(s) == [i \in 1..s.Connections |-> 0]

\* strconv.Itoa(id) (goworker.go:183): the decimal digits of id, most
\* significant first.
Digits == <<"0", "1", "2", "3", "4", "5", "6", "7", "8", "9">>
RECURSIVE Itoa(_)
Itoa(n) ==
    IF n < 10 THEN Digits[n + 1]
              ELSE Itoa(n \div 10) \o Digits[(n % 10) + 1]

\* ---------------------------------------------------------------- Init()
\* Mutant of Init_Lock: Init enters its body without taking initMutex.
Init_Lock_NoMutex(p) ==
    /\ pc[p] = "init_lock"
    /\ pc' = [pc EXCEPT ![p] = "init_check"]
    /\ UNCHANGED <<initialized, initMutex, pool, openPools, poolsBuilt,
                   poolCloses, loggersBuilt, initCalls, closeCalls, err>>
    /\ UNCHANGED <<workVars, poolVars, workerSettings>>

\* initMutex.Lock() (goworker.go:65)
Init_Lock(p) ==
    /\ pc[p] = "init_lock"
    /\ initMutex = NoProc
    /\ initMutex' = p
    /\ pc' = [pc EXCEPT ![p] = "init_check"]
    /\ UNCHANGED <<initialized, pool, openPools, poolsBuilt, poolCloses,
                   loggersBuilt, initCalls, closeCalls, err>>
    /\ UNCHANGED <<workVars, poolVars, workerSettings>>

\* Mutant of Init_Check: the !initialized test is dropped, every call
\* re-runs the initialization steps.
Init_Check_Always(p) ==
    /\ pc[p] = "init_check"
    /\ pc' = [pc EXCEPT ![p] = "init_logger"]
    /\ UNCHANGED <<initialized, initMutex, pool, openPools, poolsBuilt,
                   poolCloses, loggersBuilt, initCalls, closeCalls, err>>
    /\ UNCHANGED <<workVars, poolVars, workerSettings>>

\* if !initialized { ... } return nil (goworker.go:67, 85)
Init_Check(p) ==
    /\ pc[p] = "init_check"
    /\ IF initialized
          THEN /\ pc' = [pc EXCEPT ![p] = "init_unlock"]
               /\ err' = [err EXCEPT ![p] = NoErr]
          ELSE /\ pc' = [pc EXCEPT ![p] = "init_logger"]
               /\ UNCHANGED err
    /\ UNCHANGED <<initialized, initMutex, pool, openPools, poolsBuilt,
                   poolCloses, loggersBuilt, initCalls, closeCalls>>
    /\ UNCHANGED <<workVars, poolVars, workerSettings>>

\* logger, err = seelog.LoggerFromWriterWithMinLevel(...) (goworker.go:69-72)
Init_Logger(p) ==
    /\ pc[p] = "init_logger"
    /\ \E ok \in BOOLEAN :
          IF ok
             THEN /\ loggersBuilt' = loggersBuilt + 1
                  /\ pc' = [pc EXCEPT ![p] = "init_flags"]
                  /\ UNCHANGED err
             ELSE /\ err' = [err EXCEPT ![p] = "LoggerError"]
                  /\ pc' = [pc EXCEPT ![p] = "init_unlock"]
                  /\ UNCHANGED loggersBuilt
    /\ UNCHANGED <<initialized, initMutex, pool, openPools, poolsBuilt,
                   poolCloses, initCalls, closeCalls>>
    /\ UNCHANGED <<workVars, poolVars, workerSettings>>

\* if err := flags(); err != nil { return err } (goworker.go:74-76)
Init_Flags(p) ==
    /\ pc[p] = "init_flags"
    /\ \E ok \in BOOLEAN :
          IF ok
             THEN /\ pc' = [pc EXCEPT ![p] = "init_pool"]
                  /\ UNCHANGED err
             ELSE /\ err' = [err EXCEPT ![p] = "ConfigError"]
                  /\ pc' = [pc EXCEPT ![p] = "init_unlock"]
    /\ UNCHANGED <<initialized, initMutex, pool, openPools, poolsBuilt,
                   poolCloses, loggersBuilt, initCalls, closeCalls>>
    /\ UNCHANGED <<workVars, poolVars, workerSettings>>

\* pool = newRedisPool(...) (goworker.go:77-81)
Init_NewPool(p) ==
    /\ pc[p] = "init_pool"
    /\ poolsBuilt' = poolsBuilt + 1
    /\ pool' = poolsBuilt + 1
    /\ openPools' = openPools \cup {poolsBuilt + 1}
    /\ resources' = newRedisPool(workerSettings)
    /\ pc' = [pc EXCEPT ![p] = "init_set"]
    /\ UNCHANGED <<initialized, initMutex, poolCloses, loggersBuilt, initCalls, closeCalls, err>>
    /\ UNCHANGED <<workVars, callVars, workerSettings>>

\* initialized = true ... return nil (goworker.go:83-85)
Init_Set(p) ==
    /\ pc[p] = "init_set"
    /\ initialized' = TRUE
    /\ err' = [err EXCEPT ![p] = NoErr]
    /\ pc' = [pc EXCEPT ![p] = "init_unlock"]
    /\ UNCHANGED <<initMutex, pool, openPools, poolsBuilt, poolCloses,
                   loggersBuilt, initCalls, closeCalls>>
    /\ UNCHANGED <<workVars, poolVars, workerSettings>>

\* defer initMutex.Unlock() (goworker.go:66)
Init_Unlock(p) ==
    /\ pc[p] = "init_unlock"
    /\ initMutex' = NoProc
    /\ pc' = [pc EXCEPT ![p] = "init_ret"]
    /\ UNCHANGED <<initialized, pool, openPools, poolsBuilt, poolCloses,
                   loggersBuilt, initCalls, closeCalls, err>>
    /\ UNCHANGED <<workVars, poolVars, workerSettings>>

\* ---------------------------------------------------------------- Close()
\* initMutex.Lock() (goworker.go:152)
Close_Lock(p) ==
    /\ pc[p] = "close_lock"
    /\ initMutex = NoProc
    /\ initMutex' = p
    /\ pc' = [pc EXCEPT ![p] = "close_check"]
    /\ UNCHANGED <<initialized, pool, openPools, poolsBuilt, poolCloses,
                   loggersBuilt, initCalls, closeCalls, err>>
    /\ UNCHANGED <<workVars, poolVars, workerSettings>>

\* if initialized { (goworker.go:154)
Close_Check(p) ==
    /\ pc[p] = "close_check"
    /\ pc' = [pc EXCEPT ![p] = IF initialized THEN "close_pool" ELSE "close_unlock"]
    /\ UNCHANGED <<initialized, initMutex, pool, openPools, poolsBuilt,
                   poolCloses, loggersBuilt, initCalls, closeCalls, err>>
    /\ UNCHANGED <<workVars, poolVars, workerSettings>>

\* pool.Close() (goworker.go:155)
Close_Pool(p) ==
    /\ pc[p] = "close_pool"
    /\ openPools' = openPools \ {pool}
    /\ poolCloses' = poolCloses + 1
    /\ pc' = [pc EXCEPT ![p] = "close_set"]
    /\ UNCHANGED <<initialized, initMutex, pool, poolsBuilt, loggersBuilt,
                   initCalls, closeCalls, err>>
    /\ UNCHANGED <<workVars, poolVars, workerSettings>>

\* Mutant of Close_Set: Close forgets to clear the initialized flag.
Close_Set_KeepsFlag(p) ==
    /\ pc[p] = "close_set"
    /\ pc' = [pc EXCEPT ![p] = "close_unlock"]
    /\ UNCHANGED <<initialized, initMutex, pool, openPools, poolsBuilt,
                   poolCloses, loggersBuilt, initCalls, closeCalls, err>>
    /\ UNCHANGED <<workVars, poolVars, workerSettings>>

\* initialized = false (goworker.go:156)
Close_Set(p) ==
    /\ pc[p] = "close_set"
    /\ initialized' = FALSE
    /\ pc' = [pc EXCEPT ![p] = "close_unlock"]
    /\ UNCHANGED <<initMutex, pool, openPools, poolsBuilt, poolCloses,
                   loggersBuilt, initCalls, closeCalls, err>>
    /\ UNCHANGED <<workVars, poolVars, workerSettings>>

\* defer initMutex.Unlock() (goworker.go:153)
Close_Unlock(p) ==
    /\ pc[p] = "close_unlock"
    /\ initMutex' = NoProc
    /\ pc' = [pc EXCEPT ![p] = "close_ret"]
    /\ UNCHANGED <<initialized, pool, openPools, poolsBuilt, poolCloses,
                   loggersBuilt, initCalls, closeCalls, err>>
    /\ UNCHANGED <<workVars, poolVars, workerSettings>>

\* ------------------------------------------------ direct callers of Init/Close
\* A program calls Init() itself (goworker.go:60-63, 147).
CallInit(p) ==
    /\ pc[p] = "idle"
    /\ p = "main" => wpc \in {"idle", "returned"}
    /\ initCalls + closeCalls < MaxCalls
    /\ initCalls' = initCalls + 1
    /\ pc' = [pc EXCEPT ![p] = "init_lock"]
    /\ UNCHANGED <<initialized, initMutex, pool, openPools, poolsBuilt,
                   poolCloses, loggersBuilt, closeCalls, err>>
    /\ UNCHANGED <<workVars, poolVars, workerSettings>>

\* A program calls Close() itself (goworker.go:150).
CallClose(p) ==
    /\ pc[p] = "idle"
    /\ p = "main" => wpc \in {"idle", "returned"}
    /\ initCalls + closeCalls < MaxCalls
    /\ closeCalls' = closeCalls + 1
    /\ pc' = [pc EXCEPT ![p] = "close_lock"]
    /\ UNCHANGED <<initialized, initMutex, pool, openPools, poolsBuilt,
                   poolCloses, loggersBuilt, initCalls, err>>
    /\ UNCHANGED <<workVars, poolVars, workerSettings>>

\* The direct call returns to the program.
CallReturn(p) ==
    /\ pc[p] \in {"init_ret", "close_ret"}
    /\ p = "main" => wpc \in {"idle", "returned"}
    /\ pc' = [pc EXCEPT ![p] = "idle"]
    /\ UNCHANGED <<initialized, initMutex, pool, openPools, poolsBuilt,
                   poolCloses, loggersBuilt, initCalls, closeCalls, err>>
    /\ UNCHANGED <<workVars, poolVars, workerSettings>>

\* ---------------------------------------------------------------- Work()
\* Work is invoked: err := Init() (goworker.go:165-166)
Work_Start ==
    /\ wpc \in {"idle", "returned"}
    /\ pc["main"] = "idle"
    /\ works < MaxWorks
    /\ works' = works + 1
    /\ wpc' = "init"
    /\ pc' = [pc EXCEPT !["main"] = "init_lock"]
    /\ quit' = FALSE
    /\ poller' = "none"
    /\ jobsClosed' = FALSE
    /\ id' = 0
    /\ workers' = <<>>
    /\ monitor' = 0
    /\ wret' = "none"
    /\ started' = <<>>
    /\ closeRuns' = 0
    /\ UNCHANGED <<initialized, initMutex, pool, openPools, poolsBuilt,
                   poolCloses, loggersBuilt, initCalls, closeCalls, err>>
    /\ UNCHANGED <<poolVars, workerSettings>>

\* Mutant of Work_AfterInit: the Close is deferred before the error test, so
\* a failed Init also runs Close.
Work_AfterInit_DeferFirst ==
    /\ wpc = "init"
    /\ pc["main"] = "init_ret"
    /\ IF err["main"] # NoErr
          THEN /\ wret' = err["main"]
               /\ wpc' = "closing"
               /\ closeRuns' = closeRuns + 1
               /\ pc' = [pc EXCEPT !["main"] = "close_lock"]
          ELSE /\ wpc' = "newPoller"
               /\ pc' = [pc EXCEPT !["main"] = "in_work"]
               /\ UNCHANGED <<wret, closeRuns>>
    /\ UNCHANGED <<initialized, initMutex, pool, openPools, poolsBuilt,
                   poolCloses, loggersBuilt, initCalls, closeCalls, err>>
    /\ UNCHANGED <<quit, poller, jobsClosed, id, workers, monitor, works,
                   started>>
    /\ UNCHANGED <<poolVars, workerSettings>>

\* if err != nil { return err }; defer Close(); quit := signals()
\* (goworker.go:167-172)
Work_AfterInit ==
    /\ wpc = "init"
    /\ pc["main"] = "init_ret"
    /\ IF err["main"] # NoErr
          THEN /\ wret' = err["main"]
               /\ wpc' = "returned"
               /\ pc' = [pc EXCEPT !["main"] = "idle"]
          ELSE /\ wpc' = "newPoller"
               /\ pc' = [pc EXCEPT !["main"] = "in_work"]
               /\ UNCHANGED wret
    /\ UNCHANGED <<initialized, initMutex, pool, openPools, poolsBuilt,
                   poolCloses, loggersBuilt, initCalls, closeCalls, err>>
    /\ UNCHANGED <<quit, poller, jobsClosed, id, workers, monitor, works,
                   started, closeRuns>>
    /\ UNCHANGED <<poolVars, workerSettings>>

\* Mutant of Work_NewPoller: the Close is deferred only after the Poller was
\* built, so a Poller construction failure returns without Close.
Work_NewPoller_NoClose ==
    /\ wpc = "newPoller"
    /\ \E ok \in BOOLEAN :
          IF ok
             THEN /\ poller' = "constructed"
                  /\ wpc' = "poll"
                  /\ UNCHANGED <<wret, pc, closeRuns>>
             ELSE /\ wret' = "PollerError"
                  /\ wpc' = "returned"
                  /\ pc' = [pc EXCEPT !["main"] = "idle"]
                  /\ UNCHANGED <<poller, closeRuns>>
    /\ UNCHANGED <<initialized, initMutex, pool, openPools, poolsBuilt,
                   poolCloses, loggersBuilt, initCalls, closeCalls, err>>
    /\ UNCHANGED <<quit, jobsClosed, id, workers, monitor, works, started>>
    /\ UNCHANGED <<poolVars, workerSettings>>

\* poller, err := newPoller(...); if err != nil { return err }
\* (goworker.go:174-177); the return runs the deferred Close (goworker.go:170)
Work_NewPoller ==
    /\ wpc = "newPoller"
    /\ \E ok \in BOOLEAN :
          IF ok
             THEN /\ poller' = "constructed"
                  /\ wpc' = "poll"
                  /\ UNCHANGED <<wret, pc, closeRuns>>
             ELSE /\ wret' = "PollerError"
                  /\ wpc' = "closing"
                  /\ closeRuns' = closeRuns + 1
                  /\ pc' = [pc EXCEPT !["main"] = "close_lock"]
                  /\ UNCHANGED poller
    /\ UNCHANGED <<initialized, initMutex, pool, openPools, poolsBuilt,
                   poolCloses, loggersBuilt, initCalls, closeCalls, err>>
    /\ UNCHANGED <<quit, jobsClosed, id, workers, monitor, works, started>>
    /\ UNCHANGED <<poolVars, workerSettings>>

\* jobs := poller.poll(interval, quit); var monitor sync.WaitGroup; id := 0
\* (goworker.go:178-182)
Work_Poll ==
    /\ wpc = "poll"
    /\ poller' = "running"
    /\ id' = 0
    /\ monitor' = 0
    /\ wpc' = "loop"
    /\ UNCHANGED <<quit, jobsClosed, workers, wret, works, started, closeRuns>>
    /\ UNCHANGED <<lifeVars, poolVars, workerSettings>>

\* Mutant of Work_Loop: the loop test is id <= Concurrency.
Work_Loop_OffByOne ==
    /\ wpc = "loop"
    /\ IF id <= workerSettings.Concurrency
          THEN \E ok \in BOOLEAN :
                  IF ok
                     THEN /\ started' = Append(started, Itoa(id))
                          /\ workers' = Append(workers, "running")
                          /\ monitor' = monitor + 1
                          /\ id' = id + 1
                          /\ UNCHANGED <<wpc, wret, pc, closeRuns>>
                     ELSE /\ wret' = "WorkerError"
                          /\ wpc' = "closing"
                          /\ closeRuns' = closeRuns + 1
                          /\ pc' = [pc EXCEPT !["main"] = "close_lock"]
                          /\ UNCHANGED <<workers, monitor, id, started>>
          ELSE /\ wpc' = "wait"
               /\ UNCHANGED <<workers, monitor, id, wret, pc, started,
                              closeRuns>>
    /\ UNCHANGED <<initialized, initMutex, pool, openPools, poolsBuilt,
                   poolCloses, loggersBuilt, initCalls, closeCalls, err>>
    /\ UNCHANGED <<quit, poller, jobsClosed, works>>
    /\ UNCHANGED <<poolVars, workerSettings>>

\* Mutant of Work_Loop: the loop test comes after the body, one worker is
\* built even with Concurrency = 0.
Work_Loop_DoWhile ==
    /\ wpc = "loop"
    /\ IF id < workerSettings.Concurrency \/ id = 0
          THEN \E ok \in BOOLEAN :
                  IF ok
                     THEN /\ started' = Append(started, Itoa(id))
                          /\ workers' = Append(workers, "running")
                          /\ monitor' = monitor + 1
                          /\ id' = id + 1
                          /\ UNCHANGED <<wpc, wret, pc, closeRuns>>
                     ELSE /\ wret' = "WorkerError"
                          /\ wpc' = "closing"
                          /\ closeRuns' = closeRuns + 1
                          /\ pc' = [pc EXCEPT !["main"] = "close_lock"]
                          /\ UNCHANGED <<workers, monitor, id, started>>
          ELSE /\ wpc' = "wait"
               /\ UNCHANGED <<workers, monitor, id, wret, pc, started,
                              closeRuns>>
    /\ UNCHANGED <<initialized, initMutex, pool, openPools, poolsBuilt,
                   poolCloses, loggersBuilt, initCalls, closeCalls, err>>
    /\ UNCHANGED <<quit, poller, jobsClosed, works>>
    /\ UNCHANGED <<poolVars, workerSettings>>

\* Mutant of Work_Loop: each worker is registered twice on the WaitGroup.
Work_Loop_DoubleAdd ==
    /\ wpc = "loop"
    /\ IF id < workerSettings.Concurrency
          THEN \E ok \in BOOLEAN :
                  IF ok
                     THEN /\ started' = Append(started, Itoa(id))
                          /\ workers' = Append(workers, "running")
                          /\ monitor' = monitor + 2
                          /\ id' = id + 1
                          /\ UNCHANGED <<wpc, wret, pc, closeRuns>>
                     ELSE /\ wret' = "WorkerError"
                          /\ wpc' = "closing"
                          /\ closeRuns' = closeRuns + 1
                          /\ pc' = [pc EXCEPT !["main"] = "close_lock"]
                          /\ UNCHANGED <<workers, monitor, id, started>>
          ELSE /\ wpc' = "wait"
               /\ UNCHANGED <<workers, monitor, id, wret, pc, started,
                              closeRuns>>
    /\ UNCHANGED <<initialized, initMutex, pool, openPools, poolsBuilt,
                   poolCloses, loggersBuilt, initCalls, closeCalls, err>>
    /\ UNCHANGED <<quit, poller, jobsClosed, works>>
    /\ UNCHANGED <<poolVars, workerSettings>>

\* Mutant of Work_Loop: a worker construction failure is recorded and the
\* loop goes on with the next identity.
Work_Loop_ContinueOnError ==
    /\ wpc = "loop"
    /\ IF id < workerSettings.Concurrency
          THEN \E ok \in BOOLEAN :
                  IF ok
                     THEN /\ started' = Append(started, Itoa(id))
                          /\ workers' = Append(workers, "running")
                          /\ monitor' = monitor + 1
                          /\ id' = id + 1
                          /\ UNCHANGED <<wpc, wret, pc, closeRuns>>
                     ELSE /\ wret' = "WorkerError"
                          /\ id' = id + 1
                          /\ UNCHANGED <<wpc, pc, closeRuns, workers, monitor,
                                         started>>
          ELSE /\ wpc' = "wait"
               /\ UNCHANGED <<workers, monitor, id, wret, pc, started,
                              closeRuns>>
    /\ UNCHANGED <<initialized, initMutex, pool, openPools, poolsBuilt,
                   poolCloses, loggersBuilt, initCalls, closeCalls, err>>
    /\ UNCHANGED <<quit, poller, jobsClosed, works>>
    /\ UNCHANGED <<poolVars, workerSettings>>

\* for id := 0; id < Concurrency; id++ { worker, err := newWorker(...);
\*   if err != nil { return err }; worker.work(jobs, &monitor) }
\* (goworker.go:182-188); worker.work registers the worker on the WaitGroup
\* and starts it.
Work_Loop ==
    /\ wpc = "loop"
    /\ IF id < workerSettings.Concurrency
          THEN \E ok \in BOOLEAN :
                  IF ok
                     THEN /\ started' = Append(started, Itoa(id))
                          /\ workers' = Append(workers, "running")
                          /\ monitor' = monitor + 1
                          /\ id' = id + 1
                          /\ UNCHANGED <<wpc, wret, pc, closeRuns>>
                     ELSE /\ wret' = "WorkerError"
                          /\ wpc' = "closing"
                          /\ closeRuns' = closeRuns + 1
                          /\ pc' = [pc EXCEPT !["main"] = "close_lock"]
                          /\ UNCHANGED <<workers, monitor, id, started>>
          ELSE /\ wpc' = "wait"
               /\ UNCHANGED <<workers, monitor, id, wret, pc, started,
                              closeRuns>>
    /\ UNCHANGED <<initialized, initMutex, pool, openPools, poolsBuilt,
                   poolCloses, loggersBuilt, initCalls, closeCalls, err>>
    /\ UNCHANGED <<quit, poller, jobsClosed, works>>
    /\ UNCHANGED <<poolVars, workerSettings>>

\* monitor.Wait(); return nil (goworker.go:190-192); the return runs the
\* deferred Close (goworker.go:170)
Work_Wait ==
    /\ wpc = "wait"
    /\ monitor = 0
    /\ wret' = NoErr
    /\ wpc' = "closing"
    /\ closeRuns' = closeRuns + 1
    /\ pc' = [pc EXCEPT !["main"] = "close_lock"]
    /\ UNCHANGED <<initialized, initMutex, pool, openPools, poolsBuilt,
                   poolCloses, loggersBuilt, initCalls, closeCalls, err>>
    /\ UNCHANGED <<quit, poller, jobsClosed, id, workers, monitor, works,
                   started>>
    /\ UNCHANGED <<poolVars, workerSettings>>

\* The deferred Close has returned: Work returns wret (goworker.go:170)
Work_Return ==
    /\ wpc = "closing"
    /\ pc["main"] = "close_ret"
    /\ wpc' = "returned"
    /\ pc' = [pc EXCEPT !["main"] = "idle"]
    /\ UNCHANGED <<initialized, initMutex, pool, openPools, poolsBuilt,
                   poolCloses, loggersBuilt, initCalls, closeCalls, err>>
    /\ UNCHANGED <<quit, poller, jobsClosed, id, workers, monitor, wret, works,
                   started, closeRuns>>
    /\ UNCHANGED <<poolVars, workerSettings>>

\* ------------------------------------- collaborators of Work (spec.md 4.3, 6)
\* signals(): the quit notification fires once a termination signal arrives.
Quit_Fire ==
    /\ wpc \in {"newPoller", "poll", "loop", "wait", "closing"}
    /\ ~quit
    /\ quit' = TRUE
    /\ UNCHANGED <<wpc, poller, jobsClosed, id, workers, monitor, wret, works,
                   started, closeRuns>>
    /\ UNCHANGED <<lifeVars, poolVars, workerSettings>>

\* Poller: stops and closes the Job Stream once quit fires, or when the queues
\* are exhausted under exit-on-complete.
Poller_Stop ==
    /\ poller = "running"
    /\ quit \/ workerSettings.ExitOnComplete
    /\ poller' = "stopped"
    /\ jobsClosed' = TRUE
    /\ UNCHANGED <<wpc, quit, id, workers, monitor, wret, works, started,
                   closeRuns>>
    /\ UNCHANGED <<lifeVars, poolVars, workerSettings>>

\* Worker i: stops once the Job Stream closes or it observes quit, and signals
\* the completion barrier exactly once on exit.
Worker_Exit(i) ==
    /\ i \in 1..Len(workers)
    /\ workers[i] = "running"
    /\ jobsClosed \/ quit
    /\ workers' = [workers EXCEPT ![i] = "done"]
    /\ monitor' = monitor - 1
    /\ UNCHANGED <<wpc, quit, poller, jobsClosed, id, wret, works, started,
                   closeRuns>>
    /\ UNCHANGED <<lifeVars, poolVars, workerSettings>>

\* ------------------------------------------------- GetConn/getConn/PutConn
\* isSentinelConnection(): the store address is a Sentinel address.
isSentinelConnection(s) == s.Sentinel

\* Mutant of ConnectionAttempts: the direct-mode case is lost, every address
\* gets the Sentinel budget.
ConnectionAttempts_NoDirectCase(s) == s.Connections + 1

\* Mutant of ConnectionAttempts: the Sentinel budget is sized by the number
\* of monitor endpoints instead of the connection count.
ConnectionAttempts_ByMonitors(s) ==
    IF isSentinelConnection(s) THEN s.Monitors + 1 ELSE 1

\* Mutant of ConnectionAttempts: the Sentinel budget is the connection count,
\* without the extra attempt.
ConnectionAttempts_NoExtra(s) ==
    IF isSentinelConnection(s) THEN s.Connections ELSE 1

\* connectionAttempts in GetConn (goworker.go:95-100)
ConnectionAttempts(s) ==
    IF isSentinelConnection(s) THEN s.Connections + 1 ELSE 1

\* validateConnection(conn): the liveness check of a checked-out connection.
validateConnection(k) == connState[k] = "valid"

Timeouts(c) == Cardinality({i \in 1..Len(attempts[c]) : attempts[c][i] = "timeout"})

\* GetConn(): compute the budget and call getConn (goworker.go:94-102)
GetConn(c) ==
    /\ apc[c] = "idle"
    /\ lease[c] = 0
    /\ acquires < MaxAcquires
    /\ acquires' = acquires + 1
    /\ budget' = [budget EXCEPT ![c] = ConnectionAttempts(workerSettings)]
    /\ attemptsLeft' = [attemptsLeft EXCEPT ![c] = ConnectionAttempts(workerSettings)]
    /\ apc' = [apc EXCEPT ![c] = "getConn"]
    /\ res' = [res EXCEPT ![c] = "none"]
    /\ attempts' = [attempts EXCEPT ![c] = <<>>]
    /\ putNil' = [putNil EXCEPT ![c] = 0]
    /\ discarded' = [discarded EXCEPT ![c] = {}]
    /\ validated' = [validated EXCEPT ![c] = 0]
    /\ UNCHANGED <<resources, connState, nextConn, failovers, cur, lease>>
    /\ UNCHANGED <<lifeVars, workVars, workerSettings>>

\* Mutant of getConn_Exhausted: the budget test is off by one, the call gives
\* up while one attempt is still left.
getConn_Exhausted_Early(c) ==
    /\ apc[c] = "getConn"
    /\ attemptsLeft[c] <= 1
    /\ res' = [res EXCEPT ![c] = "PoolExhausted"]
    /\ apc' = [apc EXCEPT ![c] = "idle"]
    /\ UNCHANGED <<resources, connState, nextConn, failovers, attemptsLeft,
                   cur, lease, budget, attempts, putNil, discarded, validated,
                   acquires>>
    /\ UNCHANGED <<lifeVars, workVars, workerSettings>>

\* if attemptsLeft <= 0 { return nil, errors.New("Unable to get connection") }
\* (goworker.go:105-107)
getConn_Exhausted(c) ==
    /\ apc[c] = "getConn"
    /\ attemptsLeft[c] <= 0
    /\ res' = [res EXCEPT ![c] = "PoolExhausted"]
    /\ apc' = [apc EXCEPT ![c] = "idle"]
    /\ UNCHANGED <<resources, connState, nextConn, failovers, attemptsLeft,
                   cur, lease, budget, attempts, putNil, discarded, validated,
                   acquires>>
    /\ UNCHANGED <<lifeVars, workVars, workerSettings>>

\* Mutant of getConn_Get: every checkout error is retried like a timeout,
\* the test for net.Error/Timeout() is lost.
getConn_Get_RetryAll(c) ==
    /\ apc[c] = "getConn"
    /\ attemptsLeft[c] > 0
    /\ resources # <<>>
    /\ LET w == Head(resources) IN
       IF w # 0
          THEN /\ cur' = [cur EXCEPT ![c] = w]
               /\ resources' = Tail(resources)
               /\ apc' = [apc EXCEPT ![c] = "validate"]
               /\ attempts' = [attempts EXCEPT ![c] = Append(@, "conn")]
               /\ UNCHANGED <<connState, nextConn, attemptsLeft, res>>
          ELSE \/ /\ nextConn <= MaxConnIds
                  /\ connState' = Append(connState, "valid")
                  /\ nextConn' = nextConn + 1
                  /\ cur' = [cur EXCEPT ![c] = nextConn]
                  /\ resources' = Tail(resources)
                  /\ apc' = [apc EXCEPT ![c] = "validate"]
                  /\ attempts' = [attempts EXCEPT ![c] = Append(@, "conn")]
                  /\ UNCHANGED <<attemptsLeft, res>>
               \/ \E e \in {"timeout"} \cup PermanentErrors :
                  /\ resources' = Append(Tail(resources), 0)
                  /\ attempts' = [attempts EXCEPT ![c] = Append(@, e)]
                  /\ attemptsLeft' = [attemptsLeft EXCEPT ![c] = @ - 1]
                  /\ UNCHANGED <<connState, nextConn, cur, apc, res>>
    /\ UNCHANGED <<failovers, lease, budget, putNil, discarded, validated,
                   acquires>>
    /\ UNCHANGED <<lifeVars, workVars, workerSettings>>

\* resource, err := pool.Get(ctx) and the handling of err (goworker.go:109-118).
\* pool.Get blocks until a slot is free; an empty slot makes the pool dial a
\* new connection, which succeeds, times out (net.Error with Timeout()) or
\* fails otherwise (one of PermanentErrors), the slot going back empty on
\* failure.
getConn_Get(c) ==
    /\ apc[c] = "getConn"
    /\ attemptsLeft[c] > 0
    /\ resources # <<>>
    /\ LET w == Head(resources) IN
       IF w # 0
          THEN /\ cur' = [cur EXCEPT ![c] = w]
               /\ resources' = Tail(resources)
               /\ apc' = [apc EXCEPT ![c] = "validate"]
               /\ attempts' = [attempts EXCEPT ![c] = Append(@, "conn")]
               /\ UNCHANGED <<connState, nextConn, attemptsLeft, res>>
          ELSE \/ /\ nextConn <= MaxConnIds
                  /\ connState' = Append(connState, "valid")
                  /\ nextConn' = nextConn + 1
                  /\ cur' = [cur EXCEPT ![c] = nextConn]
                  /\ resources' = Tail(resources)
                  /\ apc' = [apc EXCEPT ![c] = "validate"]
                  /\ attempts' = [attempts EXCEPT ![c] = Append(@, "conn")]
                  /\ UNCHANGED <<attemptsLeft, res>>
               \/ /\ resources' = Append(Tail(resources), 0)
                  /\ attempts' = [attempts EXCEPT ![c] = Append(@, "timeout")]
                  /\ attemptsLeft' = [attemptsLeft EXCEPT ![c] = @ - 1]
                  /\ UNCHANGED <<connState, nextConn, cur, apc, res>>
               \/ \E e \in PermanentErrors :
                  /\ resources' = Append(Tail(resources), 0)
                  /\ attempts' = [attempts EXCEPT ![c] = Append(@, e)]
                  /\ res' = [res EXCEPT ![c] = e]
                  /\ apc' = [apc EXCEPT ![c] = "idle"]
                  /\ UNCHANGED <<connState, nextConn, cur, attemptsLeft>>
    /\ UNCHANGED <<failovers, lease, budget, putNil, discarded, validated,
                   acquires>>
    /\ UNCHANGED <<lifeVars, workVars, workerSettings>>

\* Mutant of getConn_Validate: an invalid connection is closed and retried
\* without telling the pool that the slot is empty (pool.Put(nil) is lost).
getConn_Validate_NoPut(c) ==
    /\ apc[c] = "validate"
    /\ LET conn == cur[c] IN
       IF validateConnection(conn)
          THEN /\ lease' = [lease EXCEPT ![c] = conn]
               /\ validated' = [validated EXCEPT ![c] = conn]
               /\ res' = [res EXCEPT ![c] = "ok"]
               /\ apc' = [apc EXCEPT ![c] = "holding"]
               /\ UNCHANGED <<connState, attemptsLeft, discarded>>
          ELSE /\ connState' = [connState EXCEPT ![conn] = "closed"]
               /\ discarded' = [discarded EXCEPT ![c] = @ \cup {conn}]
               /\ attemptsLeft' = [attemptsLeft EXCEPT ![c] = @ - 1]
               /\ apc' = [apc EXCEPT ![c] = "getConn"]
               /\ UNCHANGED <<lease, validated, res>>
    /\ cur' = [cur EXCEPT ![c] = 0]
    /\ UNCHANGED <<resources, putNil, nextConn, failovers, budget, attempts,
                   acquires>>
    /\ UNCHANGED <<lifeVars, workVars, workerSettings>>

\* Mutant of getConn_Validate: a valid connection is handed to the caller and
\* also given back to the pool.
getConn_Validate_AlsoPut(c) ==
    /\ apc[c] = "validate"
    /\ LET conn == cur[c] IN
       IF validateConnection(conn)
          THEN /\ lease' = [lease EXCEPT ![c] = conn]
               /\ validated' = [validated EXCEPT ![c] = conn]
               /\ res' = [res EXCEPT ![c] = "ok"]
               /\ apc' = [apc EXCEPT ![c] = "holding"]
               /\ resources' = Append(resources, conn)
               /\ UNCHANGED <<connState, attemptsLeft, putNil, discarded>>
          ELSE /\ connState' = [connState EXCEPT ![conn] = "closed"]
               /\ resources' = Append(resources, 0)
               /\ putNil' = [putNil EXCEPT ![c] = @ + 1]
               /\ discarded' = [discarded EXCEPT ![c] = @ \cup {conn}]
               /\ attemptsLeft' = [attemptsLeft EXCEPT ![c] = @ - 1]
               /\ apc' = [apc EXCEPT ![c] = "getConn"]
               /\ UNCHANGED <<lease, validated, res>>
    /\ cur' = [cur EXCEPT ![c] = 0]
    /\ UNCHANGED <<nextConn, failovers, budget, attempts, acquires>>
    /\ UNCHANGED <<lifeVars, workVars, workerSettings>>

\* Mutant of getConn_Validate: the discard path gives the empty slot back
\* twice (a deferred pool.Put(nil) next to the explicit one).
getConn_Validate_DoublePut(c) ==
    /\ apc[c] = "validate"
    /\ LET conn == cur[c] IN
       IF validateConnection(conn)
          THEN /\ lease' = [lease EXCEPT ![c] = conn]
               /\ validated' = [validated EXCEPT ![c] = conn]
               /\ res' = [res EXCEPT ![c] = "ok"]
               /\ apc' = [apc EXCEPT ![c] = "holding"]
               /\ UNCHANGED <<resources, connState, attemptsLeft, putNil,
                              discarded>>
          ELSE /\ connState' = [connState EXCEPT ![conn] = "closed"]
               /\ resources' = Append(Append(resources, 0), 0)
               /\ putNil' = [putNil EXCEPT ![c] = @ + 1]
               /\ discarded' = [discarded EXCEPT ![c] = @ \cup {conn}]
               /\ attemptsLeft' = [attemptsLeft EXCEPT ![c] = @ - 1]
               /\ apc' = [apc EXCEPT ![c] = "getConn"]
               /\ UNCHANGED <<lease, validated, res>>
    /\ cur' = [cur EXCEPT ![c] = 0]
    /\ UNCHANGED <<nextConn, failovers, budget, attempts, acquires>>
    /\ UNCHANGED <<lifeVars, workVars, workerSettings>>

\* conn := resource.(*RedisConn); ok := validateConnection(conn);
\* if !ok { conn.Close(); pool.Put(nil); return getConn(attemptsLeft - 1) }
\* return conn, nil (goworker.go:120-129)
getConn_Validate(c) ==
    /\ apc[c] = "validate"
    /\ LET conn == cur[c] IN
       IF validateConnection(conn)
          THEN /\ lease' = [lease EXCEPT ![c] = conn]
               /\ validated' = [validated EXCEPT ![c] = conn]
               /\ res' = [res EXCEPT ![c] = "ok"]
               /\ apc' = [apc EXCEPT ![c] = "holding"]
               /\ UNCHANGED <<resources, connState, attemptsLeft, putNil,
                              discarded>>
          ELSE /\ connState' = [connState EXCEPT ![conn] = "closed"]
               /\ resources' = Append(resources, 0)
               /\ putNil' = [putNil EXCEPT ![c] = @ + 1]
               /\ discarded' = [discarded EXCEPT ![c] = @ \cup {conn}]
               /\ attemptsLeft' = [attemptsLeft EXCEPT ![c] = @ - 1]
               /\ apc' = [apc EXCEPT ![c] = "getConn"]
               /\ UNCHANGED <<lease, validated, res>>
    /\ cur' = [cur EXCEPT ![c] = 0]
    /\ UNCHANGED <<nextConn, failovers, budget, attempts, acquires>>
    /\ UNCHANGED <<lifeVars, workVars, workerSettings>>

\* PutConn(conn): pool.Put(conn) (goworker.go:136-138)
PutConn(c) ==
    /\ apc[c] = "holding"
    /\ resources' = Append(resources, lease[c])
    /\ lease' = [lease EXCEPT ![c] = 0]
    /\ apc' = [apc EXCEPT ![c] = "idle"]
    /\ UNCHANGED <<connState, nextConn, failovers, attemptsLeft, cur, res,
                   budget, attempts, putNil, discarded, validated, acquires>>
    /\ UNCHANGED <<lifeVars, workVars, workerSettings>>

\* A failover of the store: every connection opened so far that is still
\* live now points at the old master and fails validation.
Failover ==
    /\ failovers < MaxFailovers
    /\ \E k \in 1..Len(connState) : connState[k] = "valid"
    /\ failovers' = failovers + 1
    /\ connState' = [k \in 1..Len(connState) |->
                        IF connState[k] = "valid" THEN "stale" ELSE connState[k]]
    /\ UNCHANGED <<resources, nextConn, apc, attemptsLeft, cur, lease, res,
                   budget, attempts, putNil, discarded, validated, acquires>>
    /\ UNCHANGED <<lifeVars, workVars, workerSettings>>

\* ------------------------------------------------------------ specification
PoolIdle ==
    /\ resources = <<>>
    /\ connState = <<>>
    /\ nextConn = 1
    /\ failovers = 0
    /\ apc = [c \in Callers |-> "idle"]
    /\ attemptsLeft = [c \in Callers |-> 0]
    /\ cur = [c \in Callers |-> 0]
    /\ lease = [c \in Callers |-> 0]
    /\ res = [c \in Callers |-> "none"]
    /\ budget = [c \in Callers |-> 0]
    /\ attempts = [c \in Callers |-> <<>>]
    /\ putNil = [c \in Callers |-> 0]
    /\ discarded = [c \in Callers |-> {}]
    /\ validated = [c \in Callers |-> 0]
    /\ acquires = 0

WorkIdle ==
    /\ wpc = "idle"
    /\ quit = FALSE
    /\ poller = "none"
    /\ jobsClosed = FALSE
    /\ id = 0
    /\ workers = <<>>
    /\ monitor = 0
    /\ wret = "none"
    /\ works = 0
    /\ started = <<>>
    /\ closeRuns = 0

\* The state of the package before any call: initialized is false, pool nil.
Init ==
    /\ initialized = FALSE
    /\ initMutex = NoProc
    /\ pool = 0
    /\ openPools = {}
    /\ poolsBuilt = 0
    /\ poolCloses = 0
    /\ loggersBuilt = 0
    /\ initCalls = 0
    /\ closeCalls = 0
    /\ pc = [p \in Procs |-> "idle"]
    /\ err = [p \in Procs |-> "none"]
    /\ WorkIdle
    /\ PoolIdle
    /\ workerSettings \in {s \in SettingsSet :
                             /\ ~s.Sentinel /\ s.Monitors = 0
                             /\ s.Connections = 1}

LifeStep(p) ==
    \/ CallInit(p)
    \/ CallClose(p)
    \/ CallReturn(p)
    \/ Init_Lock(p)
    \/ Init_Check(p)
    \/ Init_Logger(p)
    \/ Init_Flags(p)
    \/ Init_NewPool(p)
    \/ Init_Set(p)
    \/ Init_Unlock(p)
    \/ Close_Lock(p)
    \/ Close_Check(p)
    \/ Close_Pool(p)
    \/ Close_Set(p)
    \/ Close_Unlock(p)

Next ==
    \/ \E p \in Procs : LifeStep(p)
    \/ Work_Start
    \/ Work_AfterInit
    \/ Work_NewPoller
    \/ Work_Poll
    \/ Work_Loop
    \/ Work_Wait
    \/ Work_Return
    \/ Quit_Fire
    \/ Poller_Stop
    \/ \E i \in 1..MaxConcurrency : Worker_Exit(i)

Spec == Init /\ [][Next]_vars

\* The state after a successful Init(): the pool is built and open, and
\* callers use GetConn/PutConn on it.
InitPool ==
    /\ initialized = TRUE
    /\ initMutex = NoProc
    /\ pool = 1
    /\ openPools = {1}
    /\ poolsBuilt = 1
    /\ poolCloses = 0
    /\ loggersBuilt = 1
    /\ initCalls = 1
    /\ closeCalls = 0
    /\ pc = [p \in Procs |-> "idle"]
    /\ err = [p \in Procs |-> NoErr]
    /\ WorkIdle
    /\ workerSettings \in {s \in SettingsSet :
                             /\ ValidSettings(s)
                             /\ s.Concurrency = MaxConcurrency
                             /\ ~s.ExitOnComplete}
    /\ resources = newRedisPool(workerSettings)
    /\ connState = <<>>
    /\ nextConn = 1
    /\ failovers = 0
    /\ apc = [c \in Callers |-> "idle"]
    /\ attemptsLeft = [c \in Callers |-> 0]
    /\ cur = [c \in Callers |-> 0]
    /\ lease = [c \in Callers |-> 0]
    /\ res = [c \in Callers |-> "none"]
    /\ budget = [c \in Callers |-> 0]
    /\ attempts = [c \in Callers |-> <<>>]
    /\ putNil = [c \in Callers |-> 0]
    /\ discarded = [c \in Callers |-> {}]
    /\ validated = [c \in Callers |-> 0]
    /\ acquires = 0

NextPool ==
    \/ \E c \in Callers :
          \/ GetConn(c)
          \/ getConn_Exhausted(c)
          \/ getConn_Get(c)
          \/ getConn_Validate(c)
          \/ PutConn(c)
    \/ Failover

SpecPool == InitPool /\ [][NextPool]_vars

\* One program thread: it may call Init and Close itself, and runs Work, for
\* every connection count.
InitWork ==
    /\ initialized = FALSE
    /\ initMutex = NoProc
    /\ pool = 0
    /\ openPools = {}
    /\ poolsBuilt = 0
    /\ poolCloses = 0
    /\ loggersBuilt = 0
    /\ initCalls = 0
    /\ closeCalls = 0
    /\ pc = [p \in Procs |-> "idle"]
    /\ err = [p \in Procs |-> "none"]
    /\ WorkIdle
    /\ PoolIdle
    /\ workerSettings \in {s \in SettingsSet : ~s.Sentinel /\ s.Monitors = 0}

WorkStep ==
    \/ Work_AfterInit
    \/ Work_NewPoller
    \/ Work_Poll
    \/ Work_Loop
    \/ Work_Wait
    \/ Work_Return

NextWork ==
    \/ LifeStep("main")
    \/ Work_Start
    \/ WorkStep
    \/ Quit_Fire
    \/ Poller_Stop
    \/ \E i \in 1..MaxConcurrency : Worker_Exit(i)

SpecWork == InitWork /\ [][NextWork]_vars

\* A step of the program thread inside a call it has already made: the
\* goroutine running Init, Close or Work is runnable until it returns.
MainRuns ==
    \/ Init_Lock("main")
    \/ Init_Check("main")
    \/ Init_Logger("main")
    \/ Init_Flags("main")
    \/ Init_NewPool("main")
    \/ Init_Set("main")
    \/ Init_Unlock("main")
    \/ Close_Lock("main")
    \/ Close_Check("main")
    \/ Close_Pool("main")
    \/ Close_Set("main")
    \/ Close_Unlock("main")
    \/ CallReturn("main")
    \/ WorkStep

\* SpecWork under the Go scheduler: every runnable goroutine (the program
\* thread, the Poller, each worker) eventually takes its next step.
SpecLive ==
    /\ InitWork
    /\ [][NextWork]_vars
    /\ WF_vars(MainRuns)
    /\ WF_vars(Poller_Stop)
    /\ \A i \in 1..MaxConcurrency : WF_vars(Worker_Exit(i))

\* ------------------------------------------------------------------ claims

WorkReturned == wpc = "returned"
StartedWorkers == 1..Len(workers)
AllWorkersDone == \A i \in StartedWorkers : workers[i] = "done"

\* C1 (as claimed): once quit has fired, Work has returned only if every
\* worker it started has signalled the completion barrier.
C1_GracefulShutdown ==
    (WorkReturned /\ quit) => AllWorkersDone

\* C2 (as claimed): when Work has returned after the Poller was started, the
\* Poller has stopped (Job Stream closed), every started worker has finished,
\* and the returned value is the first fatal error, or nil.
C2_ReturnsAfterFullShutdown ==
    (WorkReturned /\ poller \in {"running", "stopped"}) =>
        /\ poller = "stopped"
        /\ jobsClosed
        /\ AllWorkersDone
        /\ wret \in {NoErr, "WorkerError"}

\* C3 (as claimed): the Close that Work runs is never executed while a worker
\* started by this Work call is still running, on every path of Work.
C3_CloseAfterBarrier ==
    wpc = "closing" => AllWorkersDone

\* C4: an Init call that finds the state Initialized returns nil and re-runs
\* no step (no logging sink, no pool built, pool identity unchanged); a Close
\* call that finds the state Uninitialized closes nothing and leaves it
\* Uninitialized.
C4_IdempotentLifecycle ==
    [][\A p \in Procs :
          /\ (pc[p] = "init_check" /\ initialized /\ pc'[p] # pc[p]) =>
                /\ pc'[p] = "init_unlock"
                /\ err'[p] = NoErr
                /\ pool' = pool
                /\ openPools' = openPools
                /\ poolsBuilt' = poolsBuilt
                /\ loggersBuilt' = loggersBuilt
                /\ initialized'
          /\ (pc[p] = "close_check" /\ ~initialized /\ pc'[p] # pc[p]) =>
                /\ pc'[p] = "close_unlock"
                /\ poolCloses' = poolCloses
                /\ openPools' = openPools
                /\ ~initialized'
          /\ (pc[p] \in {"init_unlock", "close_unlock"} /\ pc'[p] # pc[p]) =>
                /\ pool' = pool
                /\ openPools' = openPools
                /\ poolsBuilt' = poolsBuilt
                /\ poolCloses' = poolCloses
                /\ loggersBuilt' = loggersBuilt
                /\ initialized' = initialized
                /\ err' = err
      ]_vars

\* C4 witness: two direct Init calls have both returned nil, one pool and one
\* logging sink were built, and the single pool is live.
C4_Witness ==
    /\ initCalls = 2 /\ closeCalls = 0 /\ works = 0
    /\ \A p \in Procs : pc[p] = "idle" /\ err[p] = NoErr
    /\ poolsBuilt = 1 /\ loggersBuilt = 1
    /\ initialized /\ openPools = {pool}

\* C5 (I1): outside the init mutex's critical section the state is
\* Initialized iff a pool exists and is open; a failed Init leaves the state
\* Uninitialized with no open pool; after Close the pool is closed.
C5_I1 ==
    /\ initMutex = NoProc =>
          /\ initialized <=> (pool # 0 /\ pool \in openPools)
          /\ ~initialized => openPools = {}
    /\ \A p \in Procs :
          /\ (pc[p] = "init_unlock" /\ err[p] # NoErr) =>
                (~initialized /\ openPools = {})
          /\ pc[p] = "close_unlock" => (~initialized /\ openPools = {})

\* C5 witness: an Init call failed at the configuration step after an earlier
\* pool was built and closed, and it has released the mutex.
C5_Witness ==
    /\ \E p \in Procs : pc[p] = "init_ret" /\ err[p] = "ConfigError"
    /\ initMutex = NoProc
    /\ pool # 0
    /\ poolCloses = 1
    /\ ~initialized

\* C6 (I2): under any interleaving of Init and Close calls at most one pool is
\* open, a pool is built only when none is open, and each lifetime segment
\* builds at most one pool.
C6_I2 ==
    /\ Cardinality(openPools) <= 1
    /\ poolsBuilt <= poolCloses + 1
    /\ \A p \in Procs : pc[p] = "init_pool" => openPools = {}

\* C6 witness: one thread is inside Init's critical section about to build the
\* pool while another thread is blocked on the mutex in its own Init call.
C6_Witness ==
    \E p, q \in Procs :
        /\ p # q
        /\ pc[p] = "init_pool"
        /\ initMutex = p
        /\ pc[q] = "init_lock"

Called(c) == apc[c] # "idle" \/ res[c] # "none"
TimeoutsThenConn(n) == [i \in 1..(n + 1) |-> IF i <= n THEN "timeout" ELSE "conn"]

\* C7: with a non-Sentinel address, for every connection count, one GetConn
\* call performs at most one pool checkout; if that checkout times out the
\* call fails with PoolExhausted without a further checkout.
C7_DirectBudget ==
    ~isSentinelConnection(workerSettings) =>
        \A c \in Callers :
            /\ Called(c) => budget[c] = 1
            /\ Len(attempts[c]) <= 1
            /\ attempts[c] = <<"timeout">> =>
                  \/ apc[c] = "getConn" /\ attemptsLeft[c] = 0
                  \/ apc[c] = "idle" /\ res[c] = "PoolExhausted"

\* C7 witness: direct mode with two connections; the single checkout timed
\* out and the call failed with PoolExhausted.
C7_Witness ==
    /\ ~isSentinelConnection(workerSettings)
    /\ workerSettings.Connections = 2
    /\ \E c \in Callers :
          /\ attempts[c] = <<"timeout">>
          /\ apc[c] = "idle"
          /\ res[c] = "PoolExhausted"

\* C8: with a Sentinel address and connection count C the budget is C+1
\* whatever the number of monitor endpoints, one GetConn call performs at most
\* C+1 checkouts, timeouts and failed validations drawing on the same budget;
\* if the first C checkouts time out and checkout C+1 yields a connection that
\* passes validation, GetConn returns that connection.
C8_SentinelBudget ==
    isSentinelConnection(workerSettings) =>
        \A c \in Callers :
            /\ Called(c) => budget[c] = workerSettings.Connections + 1
            /\ Len(attempts[c]) <= workerSettings.Connections + 1
            /\ Called(c) =>
                  Timeouts(c) + Cardinality(discarded[c]) + attemptsLeft[c]
                     = workerSettings.Connections + 1
            /\ (/\ attempts[c] = TimeoutsThenConn(workerSettings.Connections)
                /\ apc[c] # "validate"
                /\ discarded[c] = {}) =>
                  /\ res[c] = "ok"
                  /\ validated[c] # 0
                  /\ apc[c] = "holding" => lease[c] = validated[c]

\* C8 witness: Sentinel address with two monitor endpoints and two
\* connections; two checkouts timed out, the third was validated and returned.
C8_Witness ==
    /\ isSentinelConnection(workerSettings)
    /\ workerSettings.Monitors = 2
    /\ workerSettings.Connections = 2
    /\ \E c \in Callers :
          /\ attempts[c] = <<"timeout", "timeout", "conn">>
          /\ apc[c] = "holding"
          /\ lease[c] # 0

\* C9 (I3/P4): a connection returned by GetConn passed validation in that
\* call; a checked-out connection that fails validation is never handed to a
\* caller, is closed, causes exactly one Put(nil) and consumes exactly one
\* attempt of the budget.
C9_InvalidDiscard ==
    \A c \in Callers :
        /\ apc[c] = "holding" =>
              /\ lease[c] # 0
              /\ validated[c] = lease[c]
              /\ lease[c] \notin discarded[c]
        /\ \A k \in discarded[c] :
              /\ connState[k] = "closed"
              /\ \A d \in Callers : lease[d] # k
              /\ \A i \in 1..Len(resources) : resources[i] # k
        /\ putNil[c] = Cardinality(discarded[c])
        /\ Called(c) =>
              attemptsLeft[c] = budget[c] - Timeouts(c) - Cardinality(discarded[c])

\* C9 witness: a call discarded a stale connection, retried, and returned a
\* different, validated connection.
C9_Witness ==
    \E c \in Callers :
        /\ discarded[c] # {}
        /\ apc[c] = "holding"
        /\ lease[c] \notin discarded[c]
        /\ putNil[c] = 1

Holders(k) == {c \in Callers : lease[c] = k \/ cur[c] = k}
InPool(k) == \E i \in 1..Len(resources) : resources[i] = k

\* C10 (P5): under any interleaving of GetConn and PutConn by several callers
\* no connection is held by two callers at once, and a connection held by a
\* caller is not in the pool until that caller releases or discards it.
C10_ExclusiveOwnership ==
    /\ \A c, d \in Callers : (c # d /\ lease[c] # 0) => lease[c] # lease[d]
    /\ \A k \in 1..Len(connState) :
          /\ Cardinality(Holders(k)) <= 1
          /\ Holders(k) # {} => ~InPool(k)
          /\ Cardinality({i \in 1..Len(resources) : resources[i] = k}) <= 1

\* C10 witness: a connection one caller validated, held and released is now
\* leased to the other caller.
C10_Witness ==
    \E c, d \in Callers :
        /\ c # d
        /\ res[c] = "ok" /\ apc[c] = "idle"
        /\ lease[d] # 0 /\ lease[d] = validated[c]

ConnAttempts(c) == Cardinality({i \in 1..Len(attempts[c]) : attempts[c][i] = "conn"})
OnlyConnAttempts(c) == \A i \in 1..Len(attempts[c]) : attempts[c][i] = "conn"

\* C11: with a Sentinel address, connection count C and one failover, a
\* GetConn call whose checkouts neither time out nor fail never ends in
\* PoolExhausted: it discards at most C stale connections and still has an
\* attempt left for a connection opened after the failover, also while other
\* callers acquire and release connections of the same pool.
C11_SentinelFailover ==
    (isSentinelConnection(workerSettings) /\ failovers <= 1) =>
        \A c \in Callers :
            OnlyConnAttempts(c) =>
                /\ res[c] # "PoolExhausted"
                /\ Cardinality(discarded[c]) <= workerSettings.Connections
                /\ (Called(c) /\ res[c] = "none" /\ apc[c] = "getConn") =>
                      attemptsLeft[c] >= 1

\* C11 witness: Sentinel address with two connections; after the failover a
\* call discarded both pooled connections and its third attempt returned a
\* connection opened after the failover.
C11_Witness ==
    /\ isSentinelConnection(workerSettings)
    /\ workerSettings.Connections = 2
    /\ failovers = 1
    /\ \E c \in Callers :
          /\ attempts[c] = <<"conn", "conn", "conn">>
          /\ Cardinality(discarded[c]) = 2
          /\ apc[c] = "holding"
          /\ connState[lease[c]] = "valid"

\* C12: a checkout that fails with an error that is not a timeout ends the
\* GetConn call at once: it is the last checkout of the call and the call
\* returns that same error, whatever budget is left.
C12_PermanentErrorNotRetried ==
    \A c \in Callers :
        \A i \in 1..Len(attempts[c]) :
            attempts[c][i] \in PermanentErrors =>
                /\ i = Len(attempts[c])
                /\ apc[c] = "idle"
                /\ res[c] = attempts[c][i]

\* C12 witness: Sentinel mode; after a timed-out checkout the next checkout
\* failed with AuthError and the call returned AuthError with budget left.
C12_Witness ==
    /\ isSentinelConnection(workerSettings)
    /\ \E c \in Callers :
          /\ attempts[c] = <<"timeout", "AuthError">>
          /\ res[c] = "AuthError"
          /\ apc[c] = "idle"
          /\ attemptsLeft[c] >= 1

\* C13: GetConn returns a connection, PoolExhausted or a non-timeout checkout
\* error, never a timeout or a validation failure; PoolExhausted is returned
\* only after exactly budget checkouts, each timed out or discarded after a
\* failed validation; any other failure is the error of the last checkout.
C13_FailureTaxonomy ==
    \A c \in Callers :
        /\ res[c] \in {"none", "ok", "PoolExhausted"} \cup PermanentErrors
        /\ res[c] = "PoolExhausted" =>
              /\ budget[c] = ConnectionAttempts(workerSettings)
              /\ Len(attempts[c]) = budget[c]
              /\ \A i \in 1..Len(attempts[c]) :
                    attempts[c][i] \in {"timeout", "conn"}
              /\ ConnAttempts(c) = Cardinality(discarded[c])
              /\ Timeouts(c) + Cardinality(discarded[c]) = budget[c]
              /\ lease[c] = 0
        /\ res[c] \in PermanentErrors =>
              /\ attempts[c] # <<>>
              /\ attempts[c][Len(attempts[c])] = res[c]
              /\ lease[c] = 0

\* C13 witness: Sentinel mode with two connections; a call failed with
\* PoolExhausted after three checkouts, timed out and discarded ones mixed.
C13_Witness ==
    /\ workerSettings.Connections = 2
    /\ \E c \in Callers :
          /\ res[c] = "PoolExhausted"
          /\ Len(attempts[c]) = 3
          /\ Timeouts(c) >= 1
          /\ discarded[c] # {}

Leases == {c \in Callers : lease[c] # 0}
CheckedOut == {c \in Callers : cur[c] # 0}

\* C19: slots are conserved: every slot of the pool is in the pool, under
\* validation by one call, or leased; each connection a call checked out was
\* discarded (slot given back), is under validation, or became the lease; a
\* call that failed holds no slot and one that succeeded holds exactly one;
\* whenever no call is between checkout and validation the slots missing from
\* the pool are exactly the live leases, never more than Connections.
C19_SlotConservation ==
    /\ Len(resources) + Cardinality(CheckedOut) + Cardinality(Leases)
          = workerSettings.Connections
    /\ Cardinality(Leases) <= workerSettings.Connections
    /\ (\A c \in Callers : apc[c] # "validate") =>
          workerSettings.Connections - Len(resources) = Cardinality(Leases)
    /\ \A c \in Callers :
          /\ apc[c] \in {"idle", "getConn"} => (cur[c] = 0 /\ lease[c] = 0)
          /\ apc[c] = "validate" => (cur[c] # 0 /\ lease[c] = 0)
          /\ apc[c] = "holding" => (cur[c] = 0 /\ lease[c] # 0)
          /\ ConnAttempts(c) = Cardinality(discarded[c])
                                + (IF apc[c] = "validate" THEN 1 ELSE 0)
                                + (IF res[c] = "ok" THEN 1 ELSE 0)

\* C19 witness: one call failed with PoolExhausted after discarding a
\* connection and holds nothing, while the other caller holds a lease and the
\* remaining slot is back in the pool.
C19_Witness ==
    /\ workerSettings.Connections = 2
    /\ \E c, d \in Callers :
          /\ c # d
          /\ res[c] = "PoolExhausted" /\ apc[c] = "idle"
          /\ discarded[c] # {}
          /\ lease[d] # 0
          /\ Len(resources) = 1

InitErrors == {"LoggerError", "ConfigError"}
IdNames == <<"0", "1", "2", "3", "4", "5", "6", "7", "8", "9", "10", "11">>
RunningWorkers == {i \in StartedWorkers : workers[i] = "running"}

\* C14: when the Init called by Work fails, the state is Uninitialized as Init
\* releases the mutex, and Work's next step returns that error: no Close is
\* started, no quit notification, Poller or worker exists, the barrier is
\* untouched, and the step leaves the lifecycle state as it found it.
C14_InitFailureShortCircuit ==
    [][/\ (wpc = "init" /\ pc["main"] = "init_unlock" /\ err["main"] # NoErr) =>
              (~initialized /\ openPools = {})
       /\ (/\ wpc = "init"
           /\ pc["main"] = "init_ret"
           /\ err["main"] # NoErr
           /\ wpc' # wpc) =>
              /\ wpc' = "returned"
              /\ wret' = err["main"]
              /\ wret' \in InitErrors
              /\ pc'["main"] = "idle"
              /\ closeRuns' = 0
              /\ poolCloses' = poolCloses
              /\ initialized' = initialized
              /\ openPools' = openPools
              /\ ~quit'
              /\ poller' = "none"
              /\ workers' = <<>>
              /\ started' = <<>>
              /\ monitor' = 0
      ]_vars

\* C14 witness: Work has returned the configuration error of Init; nothing
\* was closed, no Poller exists and the state is Uninitialized.
C14_Witness ==
    /\ wpc = "returned"
    /\ wret = "ConfigError"
    /\ closeRuns = 0
    /\ poolCloses = 0
    /\ ~initialized
    /\ poller = "none"
    /\ ~quit

\* C15: Work hands newWorker the identities "0", "1", ... in increasing
\* order, each once, never more than Concurrency of them, and exactly
\* Concurrency once the loop has ended without a construction failure; every
\* started worker is registered on the one barrier; the pool Init built has
\* Connections slots whatever Concurrency is.
C15_WorkerIdentities ==
    /\ Len(started) = id
    /\ Len(workers) = id
    /\ id <= workerSettings.Concurrency
    /\ started = [i \in 1..id |-> IdNames[i]]
    /\ monitor = Cardinality(RunningWorkers)
    /\ (wpc = "wait" \/ wret = NoErr) => id = workerSettings.Concurrency
    /\ pool # 0 => Len(resources) = workerSettings.Connections

\* C15 witness: Concurrency 2 with a single connection: workers "0" and "1"
\* were started in that order, both are on the barrier, the pool has one slot.
C15_Witness ==
    /\ workerSettings.Concurrency = 2
    /\ workerSettings.Connections = 1
    /\ wpc = "wait"
    /\ started = <<"0", "1">>
    /\ monitor = 2
    /\ Len(resources) = 1

\* C16: a Poller construction failure is returned with no Poller started and
\* no worker built; a failure building worker k is returned with exactly the
\* workers "0".."k-1" built and none after, and Work is on its way out: it
\* never reaches the barrier wait with an error.
C16_ConstructionFailureAborts ==
    /\ wret = "PollerError" =>
          /\ wpc \in {"closing", "returned"}
          /\ poller = "none"
          /\ workers = <<>>
          /\ started = <<>>
          /\ monitor = 0
    /\ wret = "WorkerError" =>
          /\ wpc \in {"closing", "returned"}
          /\ id < workerSettings.Concurrency
          /\ Len(workers) = id
          /\ started = [i \in 1..id |-> IdNames[i]]
    /\ wpc = "wait" => wret = "none"

\* C16 witness: building worker "1" failed; Work has returned that error
\* while worker "0" is still running and still counted on the barrier.
C16_Witness ==
    /\ workerSettings.Concurrency = 2
    /\ wpc = "returned"
    /\ wret = "WorkerError"
    /\ started = <<"0">>
    /\ workers = <<"running">>
    /\ monitor = 1

\* C17: with Concurrency = 0 no worker is ever built or started, Work reports
\* no error once Init and the Poller construction succeeded, and the Poller
\* is started.
C17_ZeroConcurrency ==
    workerSettings.Concurrency = 0 =>
        /\ workers = <<>>
        /\ started = <<>>
        /\ monitor = 0
        /\ wret \in {"none", NoErr, "PollerError"} \cup InitErrors
        /\ poller # "none" => wret \in {"none", NoErr}
        /\ wpc \in {"loop", "wait"} => poller \in {"running", "stopped"}
        /\ wret = NoErr => poller \in {"running", "stopped"}

\* C17 witness: Concurrency 0: Work returned nil, no worker exists and the
\* Poller is running with no quit notification fired.
C17_Witness ==
    /\ workerSettings.Concurrency = 0
    /\ wpc = "returned"
    /\ wret = NoErr
    /\ workers = <<>>
    /\ poller = "running"
    /\ ~quit

\* C18: with Concurrency >= 1, under fair scheduling of the program thread,
\* the Poller and the workers, once quit has fired during a Work call that
\* call returns, and at its return the state is Uninitialized with no open
\* pool.
C18_ShutdownLiveness ==
    (quit /\ wpc # "returned" /\ workerSettings.Concurrency >= 1)
        ~> (wpc = "returned" /\ ~initialized /\ openPools = {})

\* C18 witness: quit fired, the Poller stopped, both workers signalled the
\* barrier, and Work returned nil with the pool closed.
C18_Witness ==
    /\ workerSettings.Concurrency = 2
    /\ quit
    /\ wpc = "returned"
    /\ wret = NoErr
    /\ poller = "stopped"
    /\ Len(workers) = 2
    /\ AllWorkersDone
    /\ ~initialized
    /\ openPools = {}

\* C20: Work returns either straight from a failed Init, or through its
\* deferred Close: on the normal path, the Poller failure path and the worker
\* failure path Close has run exactly once, and at the return the state is
\* Uninitialized with no open pool.
C20_WorkReleasesLifecycle ==
    [][(wpc' = "returned" /\ wpc # "returned") =>
          \/ /\ wpc = "init"
             /\ wret' \in InitErrors
             /\ closeRuns' = 0
          \/ /\ wpc = "closing"
             /\ wret' \in {NoErr, "PollerError", "WorkerError"}
             /\ closeRuns' = 1
             /\ ~initialized'
             /\ openPools' = {}
      ]_vars

\* C20 witness: the program called Init itself, then Work; Work's own Init
\* found the state Initialized, the Poller construction failed, and Work
\* returned with the program's pool closed and the state Uninitialized.
C20_Witness ==
    /\ initCalls = 1 /\ closeCalls = 0 /\ works = 1
    /\ wpc = "returned"
    /\ wret = "PollerError"
    /\ pc["main"] = "idle"
    /\ err["main"] = NoErr
    /\ poolsBuilt = 1 /\ loggersBuilt = 1
    /\ poolCloses = 1
    /\ closeRuns = 1
    /\ ~initialized
    /\ openPools = {}

====
